---- MODULE Spec2Model ----
(***************************************************************************)
(* State-machine model of rin.py: the per-user conversation store          *)
(* (convos, ensure_thread), the daily usage counters (usage_dm,            *)
(* usage_guild, usage_day), the completion wrapper chat_openai and the     *)
(* slash-command handlers setpersona, reset and chat.                      *)
(*                                                                         *)
(* The handlers are asyncio coroutines on one event loop: a handler runs   *)
(* without interruption from one await to the next, so every action below  *)
(* is the code between two awaits.  The completion request itself runs in  *)
(* a worker thread (asyncio.to_thread).                                    *)
(*                                                                         *)
(* Texts are sequences of symbols.  A Python value that is only used under *)
(* `x or default` (None or "") is the empty sequence.                      *)
(***************************************************************************)
EXTENDS Integers, Sequences, FiniteSets, TLC

\* ------------------------------------------------------------ bounds
\* Events (a command chat, setpersona or reset dispatched; the date changing)
\* in one behaviour of Spec.
MaxCmds == 3
\* The same in one behaviour of SpecSeq.
MaxSeqCmds == 3
\* Chat commands dispatched in one behaviour of SpecLong.
MaxTurns == 15
\* SpecChunk: the longest enumerated text and the largest enumerated n.
MaxLen == 5
MaxN == 4

\* ------------------------------------------------------------ inputs
Users == {"u1", "u2"}
\* The identity whose commands overlap in Spec.
RacingUsers == {"u1"}
Guilds == {"g1"}
\* interaction.guild is None
NoGuild == "none"
\* Interactions whose chat handler can be running at the same time.
Slots == {1, 2}
\* Values of the environment variables <<DM_DAILY_LIMIT, GUILD_DAILY_LIMIT>>:
\* unset (0), positive and negative, for either scope.
Limits == {<<0, 0>>, <<1, 1>>, <<2, -1>>, <<-1, 2>>}

Hi == <<"h", "i">>
Hello == <<"h", "e", "l", "l", "o">>
Messages == {Hi}
\* persona arguments of /setpersona ("" is a legal argument)
Personas == {<<"p">>, <<>>}

\* Arguments of chunk on its own: every text over two symbols up to MaxLen
\* with every n in 1..MaxN and with the default n, and a text of 5000
\* characters with the default n.
Alphabet == {"a", "b"}
Texts == UNION {[1..k -> Alphabet] : k \in 0..MaxLen}
LongText == [i \in 1..5000 |-> IF i % 3 = 0 THEN "a" ELSE "b"]

DEFAULT_PERSONA == <<"You are Rin, a kind and helpful swim club captain. ...">>

\* ------------------------------------------------------------ helpers
Min(a, b) == IF a < b THEN a ELSE b
Max(a, b) == IF a > b THEN a ELSE b

\* Python `a or b` on an optional text: None and "" are both falsy.
Or(a, b) == IF a = <<>> THEN b ELSE a

\* Python s[:n] and s[-n:] for n > 0.
SliceHead(s, n) == SubSeq(s, 1, Min(n, Len(s)))
SliceTail(s, n) == SubSeq(s, Max(1, Len(s) - n + 1), Len(s))

Msg(role, content) == [role |-> role, content |-> content]

\* ------------------------------------------------------------ state
VARIABLES
    convos,             \* user_id -> list of messages (a dict: partial)
    usage_dm,           \* user_id -> count (defaultdict(int))
    usage_guild,        \* guild_id -> count (defaultdict(int))
    usage_day,          \* the date the counters belong to
    DM_DAILY_LIMIT,     \* read from the environment at start-up
    GUILD_DAILY_LIMIT,  \* read from the environment at start-up
    today,              \* datetime.date.today(): the wall clock
    calls,              \* per interaction slot: the chat handler's position and locals
                        \* (admitted_on is history: the date of its quota check)
    ncmds,              \* history: events (commands, date changes) so far
    started_today,      \* history: chat commands per scope key since the date last changed
    was_reset,          \* history: users whose thread /reset removed and nothing re-created
    turns,              \* history: successful chat turns in a row per user
    chunk_s,            \* chunk on its own: the argument s
    chunk_n,            \* chunk on its own: the argument n
    chunk_ret           \* chunk on its own: <<>> before the call, <<returned list>> after

vars == <<convos, usage_dm, usage_guild, usage_day, DM_DAILY_LIMIT,
          GUILD_DAILY_LIMIT, today, calls, ncmds, started_today, was_reset, turns,
          chunk_s, chunk_n, chunk_ret>>

\* The variables of the stand-alone calls of chunk (SpecChunk).
chunk_vars == <<chunk_s, chunk_n, chunk_ret>>

\* ------------------------------------------------------------ conversation store
\* convos[user_id][:1] + convos[user_id][-12:]
KeepLast == 12

TrimThread(t) == SliceHead(t, 1) \o SliceTail(t, KeepLast)

\* Faulty variant of ensure_thread: an existing thread's system message is replaced
\* by the persona argument (or the default) as well.
ensure_thread_resets_persona(cv, user_id, persona) ==
    LET first == Msg("system", Or(persona, DEFAULT_PERSONA))
        created == IF user_id \in DOMAIN cv
                   THEN [cv EXCEPT ![user_id][1] = first]
                   ELSE cv @@ (user_id :> <<first>>)
    IN  [created EXCEPT ![user_id] = TrimThread(created[user_id])]

\* ensure_thread(user_id, persona): the dict after the call.
ensure_thread(cv, user_id, persona) ==
    LET created == IF user_id \in DOMAIN cv
                   THEN cv
                   ELSE cv @@ (user_id :> <<Msg("system", Or(persona, DEFAULT_PERSONA))>>)
    IN  [created EXCEPT ![user_id] = TrimThread(created[user_id])]

\* convos[user_id].append(m)
append(cv, user_id, m) == [cv EXCEPT ![user_id] = Append(@, m)]

\* convos.pop(user_id, None)
pop(cv, user_id) == [u \in (DOMAIN cv) \ {user_id} |-> cv[u]]

\* ------------------------------------------------------------ usage counters
\* The three globals the quota functions read and write, as one value.
Quota == [day |-> usage_day, dm |-> usage_dm, guild |-> usage_guild]

\* usage_dm.clear(): a defaultdict(int) reads 0 for every key afterwards.
NoUsageDm == [k \in Users |-> 0]
NoUsageGuild == [k \in Guilds |-> 0]

\* Faulty variant of _reset_if_new_day: the watermark moves, the counters stay.
reset_if_new_day_keeps_counts(q, now) ==
    IF now # q.day THEN [q EXCEPT !.day = now] ELSE q

\* _reset_if_new_day(): the globals after the call, `now` being date.today().
reset_if_new_day(q, now) ==
    IF now # q.day
    THEN [day |-> now, dm |-> NoUsageDm, guild |-> NoUsageGuild]
    ELSE q

\* who_scope(interaction)
who_scope(user, guild) ==
    IF guild = NoGuild THEN <<"dm", user>> ELSE <<"guild", guild>>

\* The comparisons of over_quota, on the globals _reset_if_new_day left.
\* `if scope == "dm" and DM_DAILY_LIMIT` is Python truthiness: any limit but 0.
quota_check(q, scope, key, dmLimit, guildLimit) ==
    IF scope = "dm" /\ dmLimit # 0
    THEN q.dm[key] >= dmLimit
    ELSE IF scope = "guild" /\ guildLimit # 0
         THEN q.guild[key] >= guildLimit
         ELSE FALSE

\* bump_quota(scope, key): the globals after the call.
bump_quota(q, scope, key) ==
    IF scope = "dm"
    THEN [q EXCEPT !.dm[key] = @ + 1]
    ELSE [q EXCEPT !.guild[key] = @ + 1]

\* Faulty variant of over_quota: a rejected call is counted too.
over_quota_counts_rejected(q, now, scope, key, dmLimit, guildLimit) ==
    LET rolled == reset_if_new_day(q, now)
        result == quota_check(rolled, scope, key, dmLimit, guildLimit)
    IN  [result |-> result,
         quota |-> IF result THEN bump_quota(rolled, scope, key) ELSE rolled]

\* Faulty variant of over_quota: the check without _reset_if_new_day().
over_quota_skips_rollover(q, now, scope, key, dmLimit, guildLimit) ==
    [result |-> quota_check(q, scope, key, dmLimit, guildLimit), quota |-> q]

\* over_quota(scope, key), called on globals q when date.today() is `now`:
\* its return value and the globals it leaves.
over_quota(q, now, scope, key, dmLimit, guildLimit) ==
    LET rolled == reset_if_new_day(q, now)
    IN  [result |-> quota_check(rolled, scope, key, dmLimit, guildLimit),
         quota |-> rolled]

\* limit = DM_DAILY_LIMIT if scope == "dm" else GUILD_DAILY_LIMIT
LimitOf(scope) == IF scope = "dm" THEN DM_DAILY_LIMIT ELSE GUILD_DAILY_LIMIT

\* f"... Daily {scope.upper()} limit reached ({limit}). Please try again tomorrow."
LimitMsg(scope, limit) ==
    <<"Daily ", IF scope = "dm" THEN "DM" ELSE "GUILD", " limit reached (",
      ToString(limit), "). Please try again tomorrow.">>

\* ------------------------------------------------------------ completion gateway
\* What client_oa.chat.completions.create does: it returns a response
\* (type "ok", content = choices[0].message.content) or raises an exception
\* of class `type` carrying status and message.
Response(content) ==
    [content |-> content, type |-> "ok", status |-> "", message |-> <<>>]
Failure(type, status, message) ==
    [content |-> <<>>, type |-> type, status |-> status, message |-> message]
NoOutcome == [content |-> <<>>, type |-> "none", status |-> "", message |-> <<>>]

Successes == {Response(Hello), Response(<<>>)}
Failures ==
    { Failure("RateLimitError", "429", <<"slow down">>),
      Failure("InternalServerError", "500", <<"boom">>),
      Failure("InternalServerError", "500", <<>>),
      Failure("APIConnectionError", "", <<>>),
      Failure("APIError", "", <<>>),
      Failure("ValueError", "", <<>>) }
Outcomes == Successes \cup Failures

\* The KeyError of convos[user_id] when the thread is gone.
KeyError == Failure("KeyError", "", <<>>)

\* The class hierarchy of the imported exceptions (openai) and the builtins.
Parent(type) ==
    CASE type = "RateLimitError" -> "APIStatusError"
      [] type = "InternalServerError" -> "APIStatusError"
      [] type = "APIStatusError" -> "APIError"
      [] type = "APIConnectionError" -> "APIError"
      [] type = "APIError" -> "Exception"
      [] type = "ValueError" -> "Exception"
      [] type = "KeyError" -> "Exception"
      [] type = "Exception" -> "BaseException"
      [] OTHER -> "BaseException"

RECURSIVE IsInstance(_, _)
IsInstance(type, class) ==
    IF type = class THEN TRUE
    ELSE IF type = "BaseException" THEN FALSE
    ELSE IsInstance(Parent(type), class)

RateLimitMsg ==
    <<"The bot's AI quota is currently exhausted or rate-limited.",
      "Please try again later (or top up billing).">>
StatusMsg(status, message) ==
    <<"OpenAI error ", status, ": ">>
        \o Or(message, <<"Something went wrong. Please try again soon.">>)
UnreachableMsg ==
    <<"I couldn't reach the AI service. Please try again in a bit.">>
UnexpectedMsg(type) ==
    <<"Unexpected error: ", type, ". Please try again.">>

\* Faulty variant of the except clauses: APIStatusError is tried before its subclass
\* RateLimitError.
handle_exception_status_first(e) ==
    IF IsInstance(e.type, "APIStatusError")
    THEN [raised |-> FALSE, text |-> StatusMsg(e.status, e.message)]
    ELSE IF IsInstance(e.type, "RateLimitError")
    THEN [raised |-> FALSE, text |-> RateLimitMsg]
    ELSE IF IsInstance(e.type, "APIConnectionError") \/ IsInstance(e.type, "APIError")
    THEN [raised |-> FALSE, text |-> UnreachableMsg]
    ELSE IF IsInstance(e.type, "Exception")
    THEN [raised |-> FALSE, text |-> UnexpectedMsg(e.type)]
    ELSE [raised |-> TRUE, text |-> <<>>]

\* The except clauses of chat_openai, in order: what the coroutine does with
\* exception e.  raised = TRUE: no clause matches and e leaves chat_openai.
handle_exception(e) ==
    IF IsInstance(e.type, "RateLimitError")
    THEN [raised |-> FALSE, text |-> RateLimitMsg]
    ELSE IF IsInstance(e.type, "APIStatusError")
    THEN [raised |-> FALSE, text |-> StatusMsg(e.status, e.message)]
    ELSE IF IsInstance(e.type, "APIConnectionError") \/ IsInstance(e.type, "APIError")
    THEN [raised |-> FALSE, text |-> UnreachableMsg]
    ELSE IF IsInstance(e.type, "Exception")
    THEN [raised |-> FALSE, text |-> UnexpectedMsg(e.type)]
    ELSE [raised |-> TRUE, text |-> <<>>]

\* ------------------------------------------------------------ reply chunker
ChunkSize == 1900

\* range(0, len(s), n), as 0-based start offsets in order
RECURSIVE range_starts(_, _, _)
range_starts(i, len, n) == IF i >= len THEN <<>> ELSE <<i>> \o range_starts(i + n, len, n)

\* Faulty variant of chunk: the starts stop at len(s) - n, so a shorter last
\* segment is dropped.
chunk_drops_short_tail(s, n) ==
    LET st == range_starts(0, Len(s) - n + 1, n)
    IN  [k \in 1..Len(st) |-> SubSeq(s, st[k] + 1, Min(st[k] + n, Len(s)))]

\* chunk(s, n) = [s[i:i+n] for i in range(0, len(s), n)]
chunk(s, n) ==
    LET st == range_starts(0, Len(s), n)
    IN  [k \in 1..Len(st) |-> SubSeq(s, st[k] + 1, Min(st[k] + n, Len(s)))]

\* ------------------------------------------------------------ chat_openai
\* chat_openai up to the await: ensure_thread(user_id), then the user append.
chat_openai_begin(cv, user_id, user_msg) ==
    append(ensure_thread(cv, user_id, <<>>), user_id, Msg("user", user_msg))

\* Faulty variant of chat_openai_end: the text returned for a failure is stored
\* as an assistant message too.
chat_openai_end_stores_failure(cv, user_id, o) ==
    LET r == handle_exception(IF o.type = "ok" THEN KeyError ELSE o)
        text == IF o.type = "ok" /\ user_id \in DOMAIN cv THEN Or(o.content, <<>>) ELSE r.text
    IN  [convos |-> IF user_id \in DOMAIN cv /\ ~r.raised
                    THEN append(cv, user_id, Msg("assistant", text))
                    ELSE cv,
         raised |-> IF o.type = "ok" /\ user_id \in DOMAIN cv THEN FALSE ELSE r.raised,
         text |-> text]

\* chat_openai from the await on, given what the worker thread produced:
\* the dict afterwards and what the coroutine returns (or that it raises).
\* The assistant append is inside the try: a KeyError of convos[user_id]
\* there is handled like a failure of the call.
chat_openai_end(cv, user_id, o) ==
    IF o.type = "ok"
    THEN LET text == Or(o.content, <<>>)
         IN  IF user_id \in DOMAIN cv
             THEN [convos |-> append(cv, user_id, Msg("assistant", text)),
                   raised |-> FALSE, text |-> text]
             ELSE [convos |-> cv] @@ handle_exception(KeyError)
    ELSE [convos |-> cv] @@ handle_exception(o)

\* setpersona: ensure_thread(user_id, persona), then index 0 is overwritten.
setpersona_store(cv, user_id, persona) ==
    [ensure_thread(cv, user_id, persona) EXCEPT ![user_id][1] = Msg("system", persona)]

\* ------------------------------------------------------------ handlers
NoCall ==
    [guild |-> "", user |-> "", message |-> <<>>, pc |-> "idle",
     seen |-> <<>>, callfail |-> FALSE, outcome |-> NoOutcome,
     reply |-> <<>>, parts |-> <<>>, sent |-> 0, response |-> <<>>,
     admitted_on |-> 0]

NoCounts == [dm |-> NoUsageDm, guild |-> NoUsageGuild]

CountOf(counts, sk) == IF sk[1] = "dm" THEN counts.dm[sk[2]] ELSE counts.guild[sk[2]]

EmptyConvos == [u \in {} |-> <<>>]

InFlight(c) == calls[c].pc # "idle"

\* The state after the module has been loaded.
Loaded ==
    /\ convos = EmptyConvos
    /\ usage_dm = NoUsageDm
    /\ usage_guild = NoUsageGuild
    /\ today = 0
    /\ usage_day = today
    /\ \E l \in Limits : DM_DAILY_LIMIT = l[1] /\ GUILD_DAILY_LIMIT = l[2]
    /\ calls = [c \in Slots |-> NoCall]
    /\ ncmds = 0
    /\ started_today = NoCounts
    /\ was_reset = {}
    /\ turns = [u \in Users |-> 0]

Init ==
    /\ Loaded
    /\ chunk_s = <<>>
    /\ chunk_n = ChunkSize
    /\ chunk_ret = <<>>

\* The wall-clock date advances.
Tick ==
    /\ today' = today + 1
    /\ ncmds' = ncmds + 1
    /\ started_today' = NoCounts
    /\ UNCHANGED <<convos, usage_dm, usage_guild, usage_day, DM_DAILY_LIMIT,
                   GUILD_DAILY_LIMIT, calls, was_reset, turns>>
    /\ UNCHANGED chunk_vars

\* /setpersona
SetPersona(user, persona) ==
    /\ convos' = setpersona_store(convos, user, persona)
    /\ ncmds' = ncmds + 1
    /\ was_reset' = was_reset \ {user}
    /\ turns' = [turns EXCEPT ![user] = 0]
    /\ UNCHANGED <<usage_dm, usage_guild, usage_day, DM_DAILY_LIMIT,
                   GUILD_DAILY_LIMIT, today, calls, started_today>>
    /\ UNCHANGED chunk_vars

\* /reset
Reset(user) ==
    /\ convos' = pop(convos, user)
    /\ ncmds' = ncmds + 1
    /\ was_reset' = was_reset \cup {user}
    /\ turns' = [turns EXCEPT ![user] = 0]
    /\ UNCHANGED <<usage_dm, usage_guild, usage_day, DM_DAILY_LIMIT,
                   GUILD_DAILY_LIMIT, today, calls, started_today>>
    /\ UNCHANGED chunk_vars

\* /chat up to its first await: who_scope, over_quota, then either the
\* limit-reached message (send_message) or defer().
ChatStart(c, user, guild, message) ==
    LET sk == who_scope(user, guild)
        oq == over_quota(Quota, today, sk[1], sk[2], DM_DAILY_LIMIT, GUILD_DAILY_LIMIT)
        call == [NoCall EXCEPT !.user = user, !.guild = guild, !.message = message,
                               !.admitted_on = today]
    IN  /\ ~InFlight(c)
        /\ \A d \in Slots : d < c => InFlight(d)
        /\ usage_day' = oq.quota.day
        /\ usage_dm' = oq.quota.dm
        /\ usage_guild' = oq.quota.guild
        /\ calls' = [calls EXCEPT ![c] =
                IF oq.result
                THEN [call EXCEPT !.pc = "rejected",
                                  !.response = LimitMsg(sk[1], LimitOf(sk[1]))]
                ELSE [call EXCEPT !.pc = "deferred"]]
        /\ ncmds' = ncmds + 1
        /\ started_today' =
                IF sk[1] = "dm"
                THEN [started_today EXCEPT !.dm[sk[2]] = @ + 1]
                ELSE [started_today EXCEPT !.guild[sk[2]] = @ + 1]
        /\ UNCHANGED <<convos, DM_DAILY_LIMIT, GUILD_DAILY_LIMIT, today,
                       was_reset, turns>>
        /\ UNCHANGED chunk_vars

\* /chat after defer(): chat_openai runs to its await and hands _call to a
\* worker thread.
ChatOpenAI(c) ==
    /\ calls[c].pc = "deferred"
    /\ convos' = chat_openai_begin(convos, calls[c].user, calls[c].message)
    /\ calls' = [calls EXCEPT ![c].pc = "dispatched"]
    /\ was_reset' = was_reset \ {calls[c].user}
    /\ UNCHANGED <<usage_dm, usage_guild, usage_day, DM_DAILY_LIMIT,
                   GUILD_DAILY_LIMIT, today, ncmds, started_today, turns>>
    /\ UNCHANGED chunk_vars

\* The worker thread runs _call: it evaluates convos[user_id] when it gets to
\* run, which is any time after the hand-over.
WorkerCall(c) ==
    /\ calls[c].pc = "dispatched"
    /\ calls' = [calls EXCEPT ![c] =
            IF calls[c].user \in DOMAIN convos
            THEN [@ EXCEPT !.pc = "inflight", !.seen = convos[calls[c].user]]
            ELSE [@ EXCEPT !.pc = "inflight", !.callfail = TRUE]]
    /\ UNCHANGED <<convos, usage_dm, usage_guild, usage_day, DM_DAILY_LIMIT,
                   GUILD_DAILY_LIMIT, today, ncmds, started_today, was_reset, turns>>
    /\ UNCHANGED chunk_vars

\* The await returns with outcome o: the rest of chat_openai, then in chat
\* bump_quota and chunk(reply).  (log_event changes no state of the model.)
ChatComplete(c, o) ==
    LET user == calls[c].user
        sk == who_scope(user, calls[c].guild)
        r == chat_openai_end(convos, user, o)
        q == bump_quota(Quota, sk[1], sk[2])
    IN  /\ calls[c].pc = "inflight"
        /\ calls[c].callfail => o = KeyError
        /\ convos' = r.convos
        /\ turns' = [turns EXCEPT ![user] =
                IF o.type = "ok" /\ ~r.raised /\ user \in DOMAIN convos
                THEN @ + 1 ELSE 0]
        /\ IF r.raised
           THEN /\ calls' = [calls EXCEPT ![c] =
                        [@ EXCEPT !.pc = "crashed", !.outcome = o, !.seen = <<>>]]
                /\ UNCHANGED <<usage_dm, usage_guild, usage_day>>
           ELSE /\ calls' = [calls EXCEPT ![c] =
                        [@ EXCEPT !.pc = "followup", !.outcome = o, !.seen = <<>>,
                                  !.reply = r.text,
                                  !.parts = chunk(r.text, ChunkSize)]]
                /\ usage_day' = q.day
                /\ usage_dm' = q.dm
                /\ usage_guild' = q.guild
        /\ UNCHANGED <<DM_DAILY_LIMIT, GUILD_DAILY_LIMIT, today, ncmds,
                       started_today, was_reset>>
        /\ UNCHANGED chunk_vars

\* for part in chunk(reply): await interaction.followup.send(part)
FollowupSend(c) ==
    /\ calls[c].pc = "followup"
    /\ calls[c].parts # <<>>
    /\ calls' = [calls EXCEPT ![c].parts = Tail(@), ![c].sent = @ + 1]
    /\ UNCHANGED <<convos, usage_dm, usage_guild, usage_day, DM_DAILY_LIMIT,
                   GUILD_DAILY_LIMIT, today, ncmds, started_today, was_reset, turns>>
    /\ UNCHANGED chunk_vars

\* The chat handler is over: it returns after the limit-reached message or
\* after the last part was sent, or an exception has left it.
ChatEnd(c) ==
    /\ \/ calls[c].pc = "rejected"
       \/ calls[c].pc = "followup" /\ calls[c].parts = <<>>
       \/ calls[c].pc = "crashed"
    /\ calls' = [calls EXCEPT ![c] = NoCall]
    /\ UNCHANGED <<convos, usage_dm, usage_guild, usage_day, DM_DAILY_LIMIT,
                   GUILD_DAILY_LIMIT, today, ncmds, started_today, was_reset, turns>>
    /\ UNCHANGED chunk_vars

\* What the worker thread can produce for call c, the service answering
\* with one of `outcomes`.
OutcomesOf(c, outcomes) == IF calls[c].callfail THEN {KeyError} ELSE outcomes

\* ------------------------------------------------------------ specifications
\* The steps of the program with at most `cap` events, commands coming from
\* `users`, at most Cardinality(slots) chat handlers running at a time and
\* the completion service answering with one of `outcomes`.
Step(cap, users, slots, outcomes) ==
    \/ ncmds < cap /\ Tick
    \/ ncmds < cap /\ \E u \in users, p \in Personas : SetPersona(u, p)
    \/ ncmds < cap /\ \E u \in users : Reset(u)
    \/ ncmds < cap /\ \E c \in slots, u \in users, g \in Guilds \cup {NoGuild},
                         m \in Messages : ChatStart(c, u, g, m)
    \/ \E c \in slots : ChatOpenAI(c)
    \/ \E c \in slots : WorkerCall(c)
    \/ \E c \in slots : \E o \in OutcomesOf(c, outcomes) : ChatComplete(c, o)
    \/ \E c \in slots : FollowupSend(c)
    \/ \E c \in slots : ChatEnd(c)

\* Spec: every interleaving of the handlers of one identity's commands.
RacingOutcomes ==
    Successes \cup { Failure("RateLimitError", "429", <<"slow down">>),
                     Failure("ValueError", "", <<>>) }

Next == Step(MaxCmds, RacingUsers, Slots, RacingOutcomes)

Spec == Init /\ [][Next]_vars

\* SpecSeq: one chat handler at a time, every identity and every outcome.
NextSeq == Step(MaxSeqCmds, Users, {1}, Outcomes)

SpecSeq == Init /\ [][NextSeq]_vars

\* SpecLong: one identity chats in direct messages, turn after turn, and
\* every completion succeeds.
OkHello == Response(Hello)

NextLong ==
    \/ ncmds < MaxTurns /\ ChatStart(1, "u1", NoGuild, Hi)
    \/ ChatOpenAI(1)
    \/ WorkerCall(1)
    \/ ChatComplete(1, OkHello)
    \/ FollowupSend(1)
    \/ ChatEnd(1)

SpecLong == Init /\ [][NextLong]_vars

\* SpecChunk: chunk(s, n) called on its own.
InitChunk ==
    /\ Loaded
    /\ \/ chunk_s \in Texts /\ chunk_n \in (1..MaxN) \cup {ChunkSize}
       \/ chunk_s = LongText /\ chunk_n = ChunkSize
    /\ chunk_ret = <<>>

ChunkCall ==
    /\ chunk_ret = <<>>
    /\ chunk_ret' = <<chunk(chunk_s, chunk_n)>>
    /\ UNCHANGED <<chunk_s, chunk_n, convos, usage_dm, usage_guild, usage_day,
                   DM_DAILY_LIMIT, GUILD_DAILY_LIMIT, today, calls, ncmds,
                   started_today, was_reset, turns>>

NextChunk == ChunkCall

SpecChunk == InitChunk /\ [][NextChunk]_vars

\* ------------------------------------------------------------ properties
\* The scope and key of the call in slot c (in the state after the step for
\* ScopeOf').
ScopeOf(c) == who_scope(calls[c].user, calls[c].guild)

\* The step starts the chat handler in slot c.
StartsChat(c) == calls[c].pc = "idle" /\ calls'[c].pc \in {"deferred", "rejected"}

\* The step is the one in which the completion of call c comes back.
Completes(c) == calls[c].pc = "inflight" /\ calls'[c].pc # "inflight"

\* No chat turn is between its user append and the end of chat_openai.
NoTurnUnderWay == \A c \in Slots : calls[c].pc \notin {"dispatched", "inflight"}

\* C1: in every reachable state every stored thread holds at most 13 entries
\* (the system message and at most the 12 most recent other messages).
C1_ThreadAtMost13 ==
    \A u \in DOMAIN convos : Len(convos[u]) <= 1 + KeepLast

\* C2: a fresh identity's single chat turn with text t that succeeds with
\* reply r returns r and leaves the thread [System(default), User(t),
\* Assistant(r)].
C2_FirstTurnThread ==
    \A c \in Slots :
        (ncmds = 1 /\ calls[c].pc = "followup" /\ calls[c].outcome.type = "ok")
        => /\ calls[c].reply = calls[c].outcome.content
           /\ convos[calls[c].user] =
                <<Msg("system", DEFAULT_PERSONA),
                  Msg("user", calls[c].message),
                  Msg("assistant", calls[c].outcome.content)>>

\* C3: when the completion call of a chat turn fails, the turn leaves the
\* usage counter of its (scope, key) as it was.
C3_FailureNotCounted ==
    [][\A c \in Slots :
          (Completes(c) /\ calls'[c].outcome.type # "ok")
          => LET sk == ScopeOf(c)
             IN  CountOf([dm |-> usage_dm', guild |-> usage_guild'], sk)
                     = CountOf([dm |-> usage_dm, guild |-> usage_guild], sk)]_vars

\* C4: with a daily limit L > 0 and one chat call at a time, the n-th call of
\* a scope key on a date passes the quota check when n <= L and gets the
\* limit-reached message when n > L; n starts again at 1 when the date
\* changes.
C4_DailyLimit ==
    [][\A c \in Slots :
          StartsChat(c)
          => LET sk == who_scope(calls'[c].user, calls'[c].guild)
                 L == LimitOf(sk[1])
                 n == CountOf(started_today, sk) + 1
             IN  L > 0 =>
                    /\ n <= L => calls'[c].pc = "deferred"
                    /\ n > L => /\ calls'[c].pc = "rejected"
                                /\ calls'[c].response = LimitMsg(sk[1], L)]_vars

\* After the date changed, the second call of a key with limit 1 was rejected.
C4_Witness ==
    \E c \in Slots :
        /\ today > 0
        /\ calls[c].pc = "rejected"
        /\ LimitOf(ScopeOf(c)[1]) > 0
        /\ CountOf(started_today, ScopeOf(c)) = LimitOf(ScopeOf(c)[1]) + 1

\* C5: after more than 13 successful chat turns in a row the thread holds
\* exactly 13 entries.
C5_ThirteenAfterManyTurns ==
    \A u \in Users :
        (turns[u] > 1 + KeepLast /\ NoTurnUnderWay)
        => u \in DOMAIN convos /\ Len(convos[u]) = 1 + KeepLast

C7_FreshAfterReset ==
    [][\A u \in Users :
          (u \in was_reset /\ u \in DOMAIN convos')
          => LET t == convos'[u]
             IN  /\ t[1].role = "system"
                 /\ \/ Len(t) = 1
                    \/ Len(t) = 2 /\ t[2].role = "user"]_vars

\* C8: a chat call found over quota answers with the limit-reached message
\* and nothing else changes: no thread, no other call, no call handed to the
\* completion service, no counter raised (with a limit > 0 the counters and
\* the watermark are untouched; a negative limit rejects on a new date too,
\* after the rollover has cleared them); the handler then just returns.
C8_OverQuotaFrame ==
    [][\A c \in Slots :
          /\ (calls[c].pc = "idle" /\ calls'[c].pc = "rejected")
             => LET sk == who_scope(calls'[c].user, calls'[c].guild)
                IN  /\ calls'[c].response =
                          LimitMsg(sk[1], IF sk[1] = "dm" THEN DM_DAILY_LIMIT
                                          ELSE GUILD_DAILY_LIMIT)
                    /\ convos' = convos
                    /\ \A d \in Slots \ {c} : calls'[d] = calls[d]
                    /\ \A k \in Users : usage_dm'[k] <= usage_dm[k]
                    /\ \A k \in Guilds : usage_guild'[k] <= usage_guild[k]
                    /\ (IF sk[1] = "dm" THEN DM_DAILY_LIMIT ELSE GUILD_DAILY_LIMIT) > 0
                       => /\ usage_dm' = usage_dm
                          /\ usage_guild' = usage_guild
                          /\ usage_day' = usage_day
          /\ (calls[c].pc = "rejected" /\ calls'[c] # calls[c])
             => /\ calls'[c].pc = "idle"
                /\ convos' = convos
                /\ usage_dm' = usage_dm
                /\ usage_guild' = usage_guild]_vars

\* A call is rejected under a limit > 0 while a thread is stored.
C8_Witness ==
    \E c \in Slots :
        /\ calls[c].pc = "rejected"
        /\ LimitOf(ScopeOf(c)[1]) > 0
        /\ DOMAIN convos # {}
        /\ CountOf([dm |-> usage_dm, guild |-> usage_guild], ScopeOf(c)) > 0

\* C9: the quota check rejects exactly when the limit is > 0 and the counter
\* of (scope, key), after the rollover, is >= the limit.
C9_OverQuotaIff ==
    [][\A c \in Slots :
          StartsChat(c)
          => LET sk == who_scope(calls'[c].user, calls'[c].guild)
                 L == IF sk[1] = "dm" THEN DM_DAILY_LIMIT ELSE GUILD_DAILY_LIMIT
                 n == CountOf([dm |-> usage_dm', guild |-> usage_guild'], sk)
             IN  (calls'[c].pc = "rejected") <=> (L > 0 /\ n >= L)]_vars

RECURSIVE Concat(_)
Concat(segments) ==
    IF segments = <<>> THEN <<>> ELSE Head(segments) \o Concat(Tail(segments))

\* C11: for every text s and n > 0, the segments chunk(s, n) returns are in
\* order and their concatenation is s; every segment has length <= n and
\* every segment but the last has length exactly n.
C11_ChunkSegments ==
    chunk_ret # <<>>
    => LET segments == chunk_ret[1]
       IN  /\ Concat(segments) = chunk_s
           /\ \A k \in 1..Len(segments) : Len(segments[k]) <= chunk_n
           /\ \A k \in 1..(Len(segments) - 1) : Len(segments[k]) = chunk_n

\* chunk of the text of 5000 characters with n = 1900 has returned three
\* segments of 1900, 1900 and 1200 characters.
C11_Witness ==
    /\ Len(chunk_s) = 5000
    /\ chunk_n = 1900
    /\ chunk_ret # <<>>
    /\ Len(chunk_ret[1]) = 3
    /\ Len(chunk_ret[1][1]) = 1900
    /\ Len(chunk_ret[1][2]) = 1900
    /\ Len(chunk_ret[1][3]) = 1200

\* C12: the message list the completion call of a chat turn sees is the
\* thread as it was right after that turn's user message was appended: from
\* the hand-over to the worker thread until the worker has read the list, no
\* step changes, replaces or removes the identity's thread, and the worker
\* finds it.
C12_CallSeesFixedCopy ==
    [][\A c \in Slots :
          calls[c].pc = "dispatched"
          => /\ calls[c].user \in DOMAIN convos
             /\ calls[c].user \in DOMAIN convos'
             /\ convos'[calls[c].user] = convos[calls[c].user]
             /\ calls'[c].pc = "inflight" => ~calls'[c].callfail]_vars

\* C13: whenever the completion call of a chat turn succeeds with text r,
\* the turn returns r and r is appended as an assistant message to the
\* identity's thread, whatever reset, setpersona and chat steps of the same
\* identity ran while the call was in flight.
C13_SuccessReturnedAndStored ==
    [][\A c \in Slots :
          (Completes(c) /\ calls'[c].outcome.type = "ok")
          => LET user == calls[c].user
                 r == calls'[c].outcome.content
             IN  /\ calls'[c].pc = "followup"
                 /\ calls'[c].reply = r
                 /\ user \in DOMAIN convos
                 /\ convos' = append(convos, user, Msg("assistant", r))]_vars

\* The role the entry at position i (1-based) of a well-formed thread has.
RoleAt(i) == IF i = 1 THEN "system" ELSE IF i % 2 = 0 THEN "user" ELSE "assistant"

\* C14: in every reachable state each stored thread has exactly one system
\* message, at index 0, and the entries after it alternate user, assistant,
\* user, assistant.
C14_SystemThenAlternating ==
    \A u \in DOMAIN convos :
        /\ Len(convos[u]) >= 1
        /\ \A i \in 1..Len(convos[u]) : convos[u][i].role = RoleAt(i)

\* C15: setpersona(identity, p) on an existing thread changes only index 0,
\* to the system message p: the entries after index 0 are the same sequence
\* before and after the call.
C15_SetPersonaKeepsHistory ==
    [][\A u \in Users, p \in Personas :
          (SetPersona(u, p) /\ u \in DOMAIN convos)
          => /\ convos'[u][1] = Msg("system", p)
             /\ Tail(convos'[u]) = Tail(convos[u])]_vars

\* The last entry of the thread of call c's user is the user message of c.
EndsWithUserMessage(cv, c) ==
    /\ calls[c].user \in DOMAIN cv
    /\ cv[calls[c].user][Len(cv[calls[c].user])] = Msg("user", calls[c].message)

\* C16: when the completion call of a chat turn fails, the step in which the
\* failure comes back appends no assistant message and removes nothing (a
\* thread that ends with the turn's user message still does; after a chat
\* that is the only command so far it holds no assistant message at all),
\* and the turn goes on to its answer: the call is not made again.
C16_FailureKeepsUserMessage ==
    [][\A c \in Slots :
          (Completes(c) /\ calls'[c].outcome.type # "ok")
          => /\ convos' = convos
             /\ EndsWithUserMessage(convos, c) => EndsWithUserMessage(convos', c)
             /\ ncmds = 1
                => /\ EndsWithUserMessage(convos', c)
                   /\ \A i \in 1..Len(convos'[calls[c].user]) :
                          convos'[calls[c].user][i].role # "assistant"
             /\ calls'[c].pc = "followup"
             /\ calls'[c].reply # <<>>]_vars

\* A status failure has come back to a turn whose thread ends with the
\* turn's user message.
C16_Witness ==
    \E c \in Slots :
        /\ calls[c].pc = "followup"
        /\ calls[c].outcome.type = "InternalServerError"
        /\ EndsWithUserMessage(convos, c)

\* C17: the day rollover runs at the start of every quota check and nowhere
\* else.  A step that starts a chat handler finds the date either different
\* from the watermark, and then every counter of both scopes is cleared and
\* the watermark becomes the date, or equal, and then counters and watermark
\* stay; either way the watermark is the date right after it.  No other step
\* moves the watermark or lowers a counter.
C17_RolloverAtAdmissionOnly ==
    [][/\ \A c \in Slots :
            StartsChat(c)
            => /\ usage_day' = today'
               /\ IF today # usage_day
                  THEN /\ \A k \in Users : usage_dm'[k] = 0
                       /\ \A k \in Guilds : usage_guild'[k] = 0
                  ELSE /\ usage_dm' = usage_dm
                       /\ usage_guild' = usage_guild
                       /\ usage_day' = usage_day
       /\ (\A c \in Slots : ~StartsChat(c))
          => /\ usage_day' = usage_day
             /\ \A k \in Users : usage_dm'[k] >= usage_dm[k]
             /\ \A k \in Guilds : usage_guild'[k] >= usage_guild[k]]_vars

\* A turn was answered and counted, the date changed, and the quota check
\* of the next chat has cleared the counters and moved the watermark.
C17_Witness ==
    /\ today > 0
    /\ usage_day = today
    /\ \E u \in Users : turns[u] > 0
    /\ \A k \in Users : usage_dm[k] = 0
    /\ \A k \in Guilds : usage_guild[k] = 0
    /\ \E c \in Slots : calls[c].pc \in {"deferred", "rejected"}

\* The scope keys the counters are kept for.
ScopeKeys == {<<"dm", u>> : u \in Users} \cup {<<"guild", g>> : g \in Guilds}

\* The calls of scope key sk that passed the quota check since the last
\* rollover and have not been counted yet.
AdmittedNotCounted(sk) ==
    {c \in Slots : /\ calls[c].pc \in {"deferred", "dispatched", "inflight"}
                   /\ ScopeOf(c) = sk
                   /\ calls[c].admitted_on = usage_day}

\* C18: for a scope key with daily limit L > 0, whatever chat calls overlap,
\* the counter of the key never exceeds L and no more than L calls of the
\* key are past the quota check since the last rollover.
C18_NeverMoreThanLimit ==
    \A sk \in ScopeKeys :
        LimitOf(sk[1]) > 0
        => /\ CountOf([dm |-> usage_dm, guild |-> usage_guild], sk) <= LimitOf(sk[1])
           /\ Cardinality(AdmittedNotCounted(sk)) <= LimitOf(sk[1])

\* C19: a chat call admitted on day d is counted against day d only: when
\* its increment is made, the counters are those of the date of its quota
\* check.
C19_CountedOnAdmissionDay ==
    [][\A c \in Slots :
          (Completes(c) /\ calls'[c].pc = "followup")
          => calls[c].admitted_on = usage_day']_vars

\* C20: every chat call that passed the quota check and was deferred sends
\* at least one follow-up message, whatever text chat_openai returned (the
\* empty text too): its handler does not return with none sent.
C20_DeferredGetsFollowup ==
    [][\A c \in Slots :
          (calls[c].pc \in {"deferred", "dispatched", "inflight", "followup"}
             /\ calls'[c].pc = "idle")
          => calls[c].sent >= 1]_vars

====
